---- MODULE Spec2Model ----
(***************************************************************************)
(* Model of the GitHub contribution simulator: simulator.py (profiles,     *)
(* message generator, ContributionSimulator, get_stats) and the commit     *)
(* materializer generate_commits.py (generate_contributions).              *)
(*                                                                         *)
(* Scales.  Probabilities and the mean volume are kept in hundredths      *)
(* (0.4 -> 40, 1.5 -> 150), the burst multiplier in tenths (2.5 -> 25).  A *)
(* value of random.random() is kept as a number of GenModulus-ths.  Dates  *)
(* are day numbers counted from a Monday, so date.weekday() is d % 7.      *)
(***************************************************************************)
EXTENDS Integers, Sequences, FiniteSets, TLC

\* ------------------------------------------------------------------ bounds
\* Events the unseeded generator may produce in one process (explored runs).
MaxEvents == 2
\* Seeds passed by the callers: 1..MaxSeed.
MaxSeed == 4
\* Preemptions of a running simulate() by the other instance's thread.
MaxSwitches == 1
\* Length of the event lists handed to get_stats directly.
MaxStatsLen == 3

\* ------------------------------------------------------------------ values
\* None, where the program expects a date, a seed or a number.
None == 0 - 1
Insts == {1, 2}
Seeds == 1..MaxSeed
\* The calendar explored: day 4 is a Friday, day 5 a Saturday.
Dates == 4..5
\* datetime.date.today(), the default of end_date.
Today == CHOOSE d \in Dates : \A e \in Dates : e <= d

Max(a, b) == IF a >= b THEN a ELSE b
Min(a, b) == IF a <= b THEN a ELSE b

\* int(x) for x given in hundredths: truncation toward zero.
IntOfHundredths(x) == IF x >= 0 THEN x \div 100 ELSE -((-x) \div 100)

\* ---------------------------------------------------------------- profiles
PROFILES ==
  [light |->
     [daily_commit_prob |-> 40, weekend_reduction |-> 30,
      avg_commits_per_day |-> 150, max_commits_per_day |-> 4,
      burst_probability |-> 5, burst_multiplier |-> 25,
      commit_time_start |-> 9, commit_time_end |-> 18],
   medium |->
     [daily_commit_prob |-> 70, weekend_reduction |-> 50,
      avg_commits_per_day |-> 300, max_commits_per_day |-> 8,
      burst_probability |-> 10, burst_multiplier |-> 20,
      commit_time_start |-> 8, commit_time_end |-> 22],
   heavy |->
     [daily_commit_prob |-> 90, weekend_reduction |-> 70,
      avg_commits_per_day |-> 500, max_commits_per_day |-> 15,
      burst_probability |-> 15, burst_multiplier |-> 18,
      commit_time_start |-> 7, commit_time_end |-> 23]]

\* The names callers pass as intensity; "extreme" is not a profile.
Intensities == {"light", "medium", "heavy", "extreme"}

\* ContributionProfile.__init__: the name is looked up in PROFILES.
KnownProfile(intensity) == intensity \in DOMAIN PROFILES

\* ---------------------------------------------------------- message words
PREFIXES == <<"feat", "fix", "docs", "style", "refactor",
              "test", "chore", "perf", "build", "ci", "wip">>

\* (ACTIONS is a reserved word of TLA+.)
ACTION_WORDS == <<"update", "add", "remove", "fix", "implement",
                  "refactor", "optimize", "improve", "clean up",
                  "rework", "simplify", "enhance", "adjust",
                  "tweak", "revise", "modify", "patch">>

OBJECTS == <<"README", "config", "tests", "utils", "helpers",
             "main module", "API", "docs", "dependencies",
             "deployment", "CI config", "error handling",
             "validation", "logging", "database", "models",
             "routes", "components", "styles", "assets">>

DETAILS == <<"for better performance", "to handle edge cases",
             "based on feedback", "for compatibility",
             "to fix bug", "as requested", "for clarity",
             "per review comments", "to improve UX",
             "to address security issue", "", "", "">>

\* str.capitalize() of each action word, in the order of ACTION_WORDS.
CAPITALIZED == <<"Update", "Add", "Remove", "Fix", "Implement",
                 "Refactor", "Optimize", "Improve", "Clean up",
                 "Rework", "Simplify", "Enhance", "Adjust",
                 "Tweak", "Revise", "Modify", "Patch">>

\* --------------------------------------------------------------- generator
\* The process-wide generator of the random module.  Until random.seed() is
\* called its state comes from the operating system and every draw may give
\* any value; once seeded it is a deterministic stream, modelled by a
\* full-period linear congruential generator with GenModulus states.
GenModulus == 64

Advance(st) == (st * 49 + 39) % GenModulus

\* The generator as the interpreter starts it.
Entropy == [seeded |-> FALSE, st |-> 0]

\* random.seed(seed)
SeedState(seed) == [seeded |-> TRUE, st |-> (seed * 23) % GenModulus]

\* One step of the stream: the generator after a draw.
After(g) == IF g.seeded THEN [g EXCEPT !.st = Advance(g.st)] ELSE g

\* The probabilities the program compares a random.random() value with, in
\* hundredths (0.12, 0.35 and 0.63 are the weekend products).
Thresholds == {5, 10, 12, 15, 35, 40, 63, 70, 90}

\* Two values that no comparison of the program tells apart.
SameSide(u, v) == \A t \in Thresholds : (u * 100 < t * GenModulus)
                                        <=> (v * 100 < t * GenModulus)

\* One value of every class of SameSide: the least.
RawSamples ==
  {u \in 0..(GenModulus - 1) :
     \A v \in 0..(GenModulus - 1) : SameSide(u, v) => u <= v}

\* The raw outputs a draw can give: the next state of a seeded stream, any
\* value of an unseeded one (explored on RawSamples).
RawOutputs(g) == IF g.seeded THEN {Advance(g.st)} ELSE RawSamples

\* random.random(): val / GenModulus lies in [0, 1).
RandomDraws(g) == {[val |-> u, rng |-> After(g)] : u \in RawOutputs(g)}

\* val / GenModulus < p / 100
Below(val, p) == val * 100 < p * GenModulus

\* val / GenModulus < (p / 100) * (q / 100)
BelowProduct(val, p, q) == val * 10000 < p * q * GenModulus

\* random.randint(a, b); an unseeded generator is explored on `samples`.
RandintDraws(g, a, b, samples) ==
  IF g.seeded
    THEN {[val |-> a + (Advance(g.st) * (b - a + 1)) \div GenModulus,
           rng |-> After(g)]}
    ELSE {[val |-> v, rng |-> g] : v \in samples \cap (a..b)}

\* The hours and the minutes/seconds an unseeded generator is explored on:
\* both ends of the range and, for hours, one hour of the 10-12 peak.
HourSamples(a, b) == {a, a + (b - a) \div 4, b}
SixtySamples == {0, 59}

\* random.gauss(mu, sigma), in hundredths.  A seeded stream spreads its
\* outputs over mu - 4 sigma .. mu + 4 sigma; an unseeded one is explored on
\* the values n + 0.5 for n from -2 up to MaxEvents.
GaussDraws(g, mu, sigma) ==
  IF g.seeded
    THEN {[val |-> mu + (sigma * (Advance(g.st) * 2 - GenModulus) * 4)
                          \div GenModulus,
           rng |-> After(g)]}
    ELSE {[val |-> 100 * n + 50, rng |-> g] : n \in (-2)..MaxEvents}

\* random.choice(seq): the index drawn.  An unseeded generator is explored
\* on the indices `samples` the call site names.
ChoiceDraws(g, seq, samples) ==
  IF g.seeded
    THEN {[val |-> 1 + (Advance(g.st) * Len(seq)) \div GenModulus,
           rng |-> After(g)]}
    ELSE {[val |-> k, rng |-> g] : k \in samples \cap (1..Len(seq))}

\* ------------------------------------------------------- message generator
\* CommitMessageGenerator.generate(): the messages one call can return, each
\* with the generator it leaves.  The style draw comes first, then one
\* choice per slot in the order of the source.  With an unseeded generator
\* each slot is explored on its last word, and the detail on a filled one
\* (conventional style) and an empty one (verbose style).
ConventionalDraws(g) ==
  UNION {UNION {UNION {
    {[val |-> IF DETAILS[d.val] # ""
                THEN PREFIXES[p.val] \o ": " \o ACTION_WORDS[a.val] \o " "
                     \o OBJECTS[o.val] \o " " \o DETAILS[d.val]
                ELSE PREFIXES[p.val] \o ": " \o ACTION_WORDS[a.val] \o " "
                     \o OBJECTS[o.val],
      rng |-> d.rng] : d \in ChoiceDraws(o.rng, DETAILS, {1})}
    : o \in ChoiceDraws(a.rng, OBJECTS, {Len(OBJECTS)})}
    : a \in ChoiceDraws(p.rng, ACTION_WORDS, {Len(ACTION_WORDS)})}
    : p \in ChoiceDraws(g, PREFIXES, {Len(PREFIXES)})}

SimpleDraws(g) ==
  UNION {
    {[val |-> CAPITALIZED[a.val] \o " " \o OBJECTS[o.val], rng |-> o.rng]
       : o \in ChoiceDraws(a.rng, OBJECTS, {Len(OBJECTS)})}
    : a \in ChoiceDraws(g, ACTION_WORDS, {Len(ACTION_WORDS)})}

VerboseDraws(g) ==
  UNION {UNION {
    {[val |-> IF DETAILS[d.val] # ""
                THEN ACTION_WORDS[a.val] \o " " \o OBJECTS[o.val] \o " "
                     \o DETAILS[d.val]
                ELSE ACTION_WORDS[a.val] \o " " \o OBJECTS[o.val],
      rng |-> d.rng] : d \in ChoiceDraws(o.rng, DETAILS, {Len(DETAILS)})}
    : o \in ChoiceDraws(a.rng, OBJECTS, {Len(OBJECTS)})}
    : a \in ChoiceDraws(g, ACTION_WORDS, {Len(ACTION_WORDS)})}

GenerateDraws(g) ==
  UNION {IF Below(style.val, 40) THEN ConventionalDraws(style.rng)
         ELSE IF Below(style.val, 70) THEN SimpleDraws(style.rng)
         ELSE VerboseDraws(style.rng)
         : style \in RandomDraws(g)}

\* -------------------------------------------------------------- timestamps
\* datetime.datetime(date.year, date.month, date.day, hour, minute, second)
DateTime(date, hour, minute, second) ==
  [date |-> date, hour |-> hour, minute |-> minute, second |-> second]

\* datetime comparison a <= b
TsLeq(a, b) ==
  \/ a.date < b.date
  \/ a.date = b.date /\ a.hour < b.hour
  \/ a.date = b.date /\ a.hour = b.hour /\ a.minute < b.minute
  \/ a.date = b.date /\ a.hour = b.hour /\ a.minute = b.minute
     /\ a.second <= b.second

\* The place of s[j] in the sorted list: the elements before it are the
\* earlier ones and, the sort being stable, the equal ones that precede it.
RankIn(s, j) ==
  Cardinality({m \in 1..Len(s) :
                 IF s[m] = s[j] THEN m <= j ELSE TsLeq(s[m], s[j])})

\* The list left as it was appended: what _generate_commit_times would
\* return without times.sort().
NoSort(s) == s

\* times.sort()
SortTimes(s) ==
  [k \in 1..Len(s) |-> s[CHOOSE j \in 1..Len(s) : RankIn(s, j) = k]]

\* date.weekday(): Monday is 0, Sunday is 6
Weekday(date) == date % 7

\* ------------------------------------------------------------------- state
VARIABLES
  rng,       \* the generator of the random module, shared by the process
  plan,      \* the arguments the callers pass to each simulator's constructor
  sim,       \* per simulator: its fields and the frame of its simulate()
  returned,  \* the simulate() calls that have returned, in order
  spent,     \* events produced so far from the unseeded generator
  sched,     \* the thread that ran last and the preemptions so far
  stats,     \* a get_stats() call and the caller reading its result
  gen        \* the frame of generate_contributions()

vars == <<rng, plan, sim, returned, spent, sched, stats, gen>>

Args ==
  [start : Dates, end : Dates, intensity : Intensities,
   seed : Seeds \cup {None}]

\* The locals of simulate() and of the functions it calls, outside a call.
\* active_days is not a variable of the program: it records the dates on
\* which _should_commit_today returned True during the call.
NoFrame ==
  [pc |-> "idle", current_date |-> None, all_commits |-> <<>>,
   count |-> 0, times |-> <<>>, hour |-> None, attempts |-> 0,
   minute |-> None, commits |-> <<>>, active_days |-> {}]

\* A simulator that has not been constructed.
NoSimulator ==
  [state |-> "none", raised |-> "", start_date |-> None, end_date |-> None,
   intensity |-> "", seed |-> None, calls |-> 0, frame |-> NoFrame]

NoStats == [pc |-> "off", commits |-> <<>>, result |-> <<>>, raised |-> ""]

NoGen ==
  [pc |-> "off", dry_run |-> FALSE, commits |-> <<>>, i |-> 0,
   handed |-> <<>>, created |-> 0, result |-> None, raised |-> ""]

Profile(i) == PROFILES[sim[i].intensity]

\* ----------------------------------------------------------------- threads
\* A simulator in the middle of simulate().
Busy(j) == sim[j].frame.pc # "idle"

\* Thread i takes a step.  Taking over from a simulator that is in the
\* middle of simulate() is a preemption; at most MaxSwitches are explored.
Turn(i) ==
  IF sched.cur # i /\ Busy(sched.cur)
    THEN /\ sched.switches < MaxSwitches
         /\ sched' = [cur |-> i, switches |-> sched.switches + 1]
    ELSE sched' = [sched EXCEPT !.cur = i]

SetFrame(i, f) == sim' = [sim EXCEPT ![i].frame = f]

\* ------------------------------------------------------------- constructor
\* A constructor that applies the seed before it looks the profile up.
SeedFirst(g, intensity, seed) == IF seed # None THEN SeedState(seed) ELSE g

\* The generator ContributionSimulator.__init__ leaves: the profile is
\* looked up (and may raise) before the seed is applied.
ConstructRng(g, intensity, seed) ==
  IF ~KnownProfile(intensity) THEN g
  ELSE IF seed # None THEN SeedState(seed)
  ELSE g

\* ContributionSimulator.__init__(start_date, end_date, intensity, seed)
ConstructBody(i) ==
  LET a == plan[i] IN
  /\ sim[i].state = "none"
  /\ Turn(i)
  /\ rng' = ConstructRng(rng, a.intensity, a.seed)
  /\ sim' = [sim EXCEPT ![i] =
       IF KnownProfile(a.intensity)
         THEN [@ EXCEPT !.state = "ready",
                        !.start_date = a.start,
                        !.end_date = IF a.end # None THEN a.end ELSE Today,
                        !.intensity = a.intensity,
                        !.seed = a.seed]
         ELSE [@ EXCEPT !.state = "failed", !.raised = "ValueError"]]
  /\ UNCHANGED <<plan, returned, spent, stats>>

Construct(i) == gen.pc = "off" /\ ConstructBody(i) /\ UNCHANGED gen

\* ---------------------------------------------------------------- simulate
\* simulate(): all_commits = [], current_date = self.start_date.  Like the
\* callers in the source, a caller runs simulate() once on its simulator.
SimulateBody(i) ==
  /\ sim[i].state = "ready"
  /\ ~Busy(i)
  /\ sim[i].calls = 0
  /\ Turn(i)
  /\ SetFrame(i, [NoFrame EXCEPT !.pc = "loop",
                                 !.current_date = sim[i].start_date])
  /\ UNCHANGED <<rng, plan, returned, spent, stats>>

Simulate(i) == gen.pc = "off" /\ SimulateBody(i) /\ UNCHANGED gen

\* while current_date <= self.end_date: generate_day(current_date)
NextDay(i) ==
  LET f == sim[i].frame IN
  /\ f.pc = "loop"
  /\ f.current_date <= sim[i].end_date
  /\ Turn(i)
  /\ SetFrame(i, [f EXCEPT !.pc = "activation"])
  /\ UNCHANGED <<rng, plan, returned, spent, stats, gen>>

\* return all_commits
SimulateReturn(i) ==
  LET f == sim[i].frame IN
  /\ f.pc = "loop"
  /\ f.current_date > sim[i].end_date
  /\ Turn(i)
  /\ returned' = Append(returned,
       [inst |-> i, call |-> sim[i].calls + 1,
        start |-> sim[i].start_date, end |-> sim[i].end_date,
        intensity |-> sim[i].intensity, seed |-> sim[i].seed,
        outcome |-> "returned", events |-> f.all_commits,
        active_days |-> f.active_days])
  /\ sim' = [sim EXCEPT ![i].frame = NoFrame, ![i].calls = @ + 1]
  /\ UNCHANGED <<rng, plan, spent, stats, gen>>

\* ------------------------------------------------------------ generate_day
\* _should_commit_today: the draw `val` is below the day's probability.
ShouldCommit(val, profile, date) ==
  IF Weekday(date) >= 5
    THEN BelowProduct(val, profile.daily_commit_prob, profile.weekend_reduction)
    ELSE Below(val, profile.daily_commit_prob)

\* The unseeded generator is explored while events remain in MaxEvents.
Affordable(g, n) == g.seeded \/ n <= MaxEvents - spent

\* generate_day: if not self._should_commit_today(date): return []
ShouldCommitToday(i) ==
  LET f == sim[i].frame IN
  /\ f.pc = "activation"
  /\ Turn(i)
  /\ \E d \in RandomDraws(rng) :
       LET active == ShouldCommit(d.val, Profile(i), f.current_date) IN
       /\ active => Affordable(rng, 1)
       /\ rng' = d.rng
       /\ SetFrame(i, IF active
                        THEN [f EXCEPT !.pc = "gauss",
                                       !.active_days = @ \cup {f.current_date}]
                        ELSE [f EXCEPT !.pc = "loop",
                                       !.current_date = @ + 1])
  /\ UNCHANGED <<plan, returned, spent, stats, gen>>

\* count = max(1, int(random.gauss(avg, avg * 0.5)))
BaseCount(gauss) == Max(1, IntOfHundredths(gauss))

\* count = int(count * burst_multiplier)
BurstCount(count, multiplier) == (count * multiplier) \div 10

\* The count returned as it is: _get_commit_count without its last line.
NoClamp(count, max_commits) == count

\* return min(count, max_commits)
ClampCount(count, max_commits) == Min(count, max_commits)

\* _get_commit_count, the volume draw
GetCommitCount(i) ==
  LET f == sim[i].frame
      p == Profile(i) IN
  /\ f.pc = "gauss"
  /\ Turn(i)
  /\ \E d \in GaussDraws(rng, p.avg_commits_per_day,
                         p.avg_commits_per_day \div 2) :
       /\ Affordable(rng, ClampCount(BaseCount(d.val), p.max_commits_per_day))
       /\ rng' = d.rng
       /\ SetFrame(i, [f EXCEPT !.pc = "burst", !.count = BaseCount(d.val)])
  /\ UNCHANGED <<plan, returned, spent, stats, gen>>

\* all_commits.extend(day_commits)
Extend(all_commits, day_commits) == all_commits \o day_commits

\* A loop body without current_date += datetime.timedelta(days=1).
StayOnDay(f, day_commits) ==
  [NoFrame EXCEPT !.pc = "loop", !.current_date = f.current_date,
                  !.all_commits = Extend(f.all_commits, day_commits),
                  !.active_days = f.active_days]

\* The frame when generate_day has returned: simulate() extends all_commits
\* and moves to the next day.
DayDone(f, day_commits) ==
  [NoFrame EXCEPT !.pc = "loop", !.current_date = f.current_date + 1,
                  !.all_commits = Extend(f.all_commits, day_commits),
                  !.active_days = f.active_days]

\* The frame when the times of the day are complete: times.sort(), and the
\* message loop of generate_day begins (it ends at once for an empty day).
TimesDone(f, times) ==
  IF times = <<>>
    THEN DayDone(f, <<>>)
    ELSE [f EXCEPT !.pc = "label", !.times = SortTimes(times),
                   !.hour = None, !.minute = None, !.attempts = 0]

\* _get_commit_count, the burst draw and the clamp; then
\* _generate_commit_times begins: times = [], for _ in range(count)
BurstDay(i) ==
  LET f == sim[i].frame
      p == Profile(i) IN
  /\ f.pc = "burst"
  /\ Turn(i)
  /\ \E d \in RandomDraws(rng) :
       LET burst == Below(d.val, p.burst_probability)
           count == ClampCount(IF burst
                                 THEN BurstCount(f.count, p.burst_multiplier)
                                 ELSE f.count,
                               p.max_commits_per_day) IN
       /\ Affordable(rng, count)
       /\ rng' = d.rng
       /\ spent' = IF rng.seeded THEN spent ELSE spent + Max(count, 0)
       /\ SetFrame(i, IF count >= 1
                        THEN [f EXCEPT !.pc = "hour", !.count = count]
                        ELSE TimesDone(f, <<>>))
  /\ UNCHANGED <<plan, returned, stats, gen>>

\* ------------------------------------------------------------ _biased_hour
\* while attempts < 10
MaxAttempts == 10

\* 10 <= hour <= 12 or 14 <= hour <= 17
IsPeak(hour) == (10 <= hour /\ hour <= 12) \/ (14 <= hour /\ hour <= 17)

\* hour = random.randint(start, end), inside the loop
HourDraws(g, start, end) == RandintDraws(g, start, end, HourSamples(start, end))

\* A fallback that draws from the whole day: random.randint(0, 23).
AnyHourDraws(g, start, end) == RandintDraws(g, 0, 23, HourSamples(0, 23))

\* return random.randint(start, end), after the loop
FallbackDraws(g, start, end) ==
  RandintDraws(g, start, end, HourSamples(start, end))

\* Peak hours are accepted with probability 0.7, the others with 0.4.
Accepted(val, hour) ==
  IF IsPeak(hour) THEN Below(val, 70) ELSE Below(val, 40)

\* One attempt of the loop: the candidate hour and its acceptance draw;
\* return hour, or attempts += 1.
BiasedHourAttempt(i) ==
  LET f == sim[i].frame
      p == Profile(i) IN
  /\ f.pc = "hour"
  /\ f.attempts < MaxAttempts
  /\ Turn(i)
  /\ \E h \in HourDraws(rng, p.commit_time_start, p.commit_time_end) :
       \E d \in RandomDraws(h.rng) :
         /\ rng' = d.rng
         /\ SetFrame(i,
              IF Accepted(d.val, h.val)
                THEN [f EXCEPT !.pc = "minute", !.hour = h.val,
                               !.attempts = 0]
                ELSE [f EXCEPT !.hour = h.val, !.attempts = @ + 1,
                               !.pc = IF f.attempts + 1 < MaxAttempts
                                        THEN "hour" ELSE "fallback"])
  /\ UNCHANGED <<plan, returned, spent, stats, gen>>

\* A fallback that returns the local `hour`, the candidate of the last
\* attempt.
LastHour(hour, drawn) == hour

\* The value the statement after the loop returns: that of its own
\* random.randint(start, end), not the local `hour`.
FallbackHour(hour, drawn) == drawn

\* The loop is exhausted: return random.randint(start, end).  attempts
\* keeps its final value until the event is complete.
BiasedHourFallback(i) ==
  LET f == sim[i].frame
      p == Profile(i) IN
  /\ f.pc = "fallback"
  /\ Turn(i)
  /\ \E d \in FallbackDraws(rng, p.commit_time_start, p.commit_time_end) :
       /\ rng' = d.rng
       /\ SetFrame(i, [f EXCEPT !.pc = "minute",
                                !.hour = FallbackHour(f.hour, d.val)])
  /\ UNCHANGED <<plan, returned, spent, stats, gen>>

\* ---------------------------------------------------- _generate_commit_times
\* minute = random.randint(0, 59)
DrawMinute(i) ==
  LET f == sim[i].frame IN
  /\ f.pc = "minute"
  /\ Turn(i)
  /\ \E d \in RandintDraws(rng, 0, 59, SixtySamples) :
       /\ rng' = d.rng
       /\ SetFrame(i, [f EXCEPT !.pc = "second", !.minute = d.val])
  /\ UNCHANGED <<plan, returned, spent, stats, gen>>

\* A loop that hands the list to generate_day after every timestamp.
LabelEach(f, times) == TimesDone(f, times)

\* for _ in range(count): the next event's hour selection while timestamps
\* are missing, the end of _generate_commit_times after the last.
NextTime(f, times) ==
  IF Len(times) < f.count
    THEN [f EXCEPT !.pc = "hour", !.times = times,
                   !.hour = None, !.minute = None, !.attempts = 0]
    ELSE TimesDone(f, times)

\* second = random.randint(0, 59); times.append(dt); after the last event
\* of the day times.sort() and the list is returned to generate_day.
DrawSecond(i) ==
  LET f == sim[i].frame IN
  /\ f.pc = "second"
  /\ Turn(i)
  /\ \E d \in RandintDraws(rng, 0, 59, SixtySamples) :
       LET times == Append(f.times,
                      DateTime(f.current_date, f.hour, f.minute, d.val)) IN
       /\ rng' = d.rng
       /\ SetFrame(i, NextTime(f, times))
  /\ UNCHANGED <<plan, returned, spent, stats, gen>>

\* Commit(timestamp=dt, message=message)
Commit(timestamp, message) == [timestamp |-> timestamp, message |-> message]

\* generate_day: for dt in times: one message per timestamp; after the last
\* the day's commits are returned and simulate() extends all_commits and
\* moves to the next day.
GenerateMessage(i) ==
  LET f == sim[i].frame IN
  /\ f.pc = "label"
  /\ Turn(i)
  /\ \E d \in GenerateDraws(rng) :
       LET commits == Append(f.commits,
                        Commit(f.times[Len(f.commits) + 1], d.val)) IN
       /\ rng' = d.rng
       /\ SetFrame(i, IF Len(commits) < Len(f.times)
                        THEN [f EXCEPT !.commits = commits]
                        ELSE DayDone(f, commits))
  /\ UNCHANGED <<plan, returned, spent, stats, gen>>

\* ------------------------------------------- simulate() on its own generator
\* What simulate() returns when every draw comes from the stream that
\* random.seed(seed) starts and nothing else draws from it: the same code,
\* as functions of the generator.  Each draw of a seeded stream has one value.
One(S) == CHOOSE x \in S : TRUE

\* _biased_hour
RECURSIVE SoloHour(_, _, _)
SoloHour(g, p, attempts) ==
  IF attempts < MaxAttempts
    THEN LET h == One(HourDraws(g, p.commit_time_start, p.commit_time_end))
             d == One(RandomDraws(h.rng)) IN
         IF Accepted(d.val, h.val)
           THEN [val |-> h.val, rng |-> d.rng]
           ELSE SoloHour(d.rng, p, attempts + 1)
    ELSE One(FallbackDraws(g, p.commit_time_start, p.commit_time_end))

\* _generate_commit_times
RECURSIVE SoloTimes(_, _, _, _, _)
SoloTimes(g, p, date, count, times) ==
  IF Len(times) >= count
    THEN [val |-> SortTimes(times), rng |-> g]
    ELSE LET h == SoloHour(g, p, 0)
             m == One(RandintDraws(h.rng, 0, 59, SixtySamples))
             s == One(RandintDraws(m.rng, 0, 59, SixtySamples)) IN
         SoloTimes(s.rng, p, date, count,
                   Append(times, DateTime(date, h.val, m.val, s.val)))

\* generate_day: the message loop
RECURSIVE SoloMessages(_, _, _)
SoloMessages(g, times, commits) ==
  IF Len(commits) >= Len(times)
    THEN [val |-> commits, rng |-> g]
    ELSE LET d == One(GenerateDraws(g)) IN
         SoloMessages(d.rng, times,
                      Append(commits, Commit(times[Len(commits) + 1], d.val)))

\* generate_day, with _should_commit_today and _get_commit_count
SoloDay(g, p, date) ==
  LET a == One(RandomDraws(g)) IN
  IF ~ShouldCommit(a.val, p, date)
    THEN [val |-> <<>>, rng |-> a.rng]
    ELSE LET c == One(GaussDraws(a.rng, p.avg_commits_per_day,
                                 p.avg_commits_per_day \div 2))
             b == One(RandomDraws(c.rng))
             base == BaseCount(c.val)
             count == ClampCount(IF Below(b.val, p.burst_probability)
                                   THEN BurstCount(base, p.burst_multiplier)
                                   ELSE base,
                                 p.max_commits_per_day)
             t == SoloTimes(b.rng, p, date, count, <<>>) IN
         SoloMessages(t.rng, t.val, <<>>)

\* simulate()
RECURSIVE SoloSimulate(_, _, _, _, _)
SoloSimulate(g, p, date, end, all_commits) ==
  IF date > end THEN all_commits
  ELSE LET d == SoloDay(g, p, date) IN
       SoloSimulate(d.rng, p, date + 1, end, Extend(all_commits, d.val))

\* ContributionSimulator(start, end, intensity, seed).simulate()
SoloEvents(start, end, intensity, seed) ==
  SoloSimulate(SeedState(seed), PROFILES[intensity], start, end, <<>>)

\* ------------------------------------------------------------ specification
\* One simulator, constructed from any arguments, and its simulate() calls.
Init ==
  /\ rng = Entropy
  /\ \E a \in Args : plan = [i \in Insts |-> a]
  /\ sim = [i \in Insts |-> NoSimulator]
  /\ returned = <<>>
  /\ spent = 0
  /\ sched = [cur |-> 1, switches |-> 0]
  /\ stats = NoStats
  /\ gen = NoGen

Step(i) ==
  \/ Construct(i)
  \/ Simulate(i)
  \/ NextDay(i)
  \/ SimulateReturn(i)
  \/ ShouldCommitToday(i)
  \/ GetCommitCount(i)
  \/ BurstDay(i)
  \/ BiasedHourAttempt(i)
  \/ BiasedHourFallback(i)
  \/ DrawMinute(i)
  \/ DrawSecond(i)
  \/ GenerateMessage(i)

Next == Step(1)

Spec == Init /\ [][Next]_vars

\* The same, with the thread that runs the program never suspended for
\* ever: the interpreter goes on to the next statement while there is one.
SpecLive == Init /\ [][Next]_vars /\ WF_vars(Next)

\* Two simulators in one process, each on its own thread, constructed with
\* the same arguments: a seed and the light profile.
InitTwo ==
  /\ rng = Entropy
  /\ \E a \in Args :
       /\ a.seed # None
       /\ a.intensity = "light"
       /\ plan = [i \in Insts |-> a]
  /\ sim = [i \in Insts |-> NoSimulator]
  /\ returned = <<>>
  /\ spent = 0
  /\ sched = [cur |-> 1, switches |-> 0]
  /\ stats = NoStats
  /\ gen = NoGen

NextTwo == \E i \in Insts : Step(i)

SpecTwo == InitTwo /\ [][NextTwo]_vars

\* --------------------------------------------------------------- get_stats
\* The dict {} that get_stats returns for an empty list: no key at all.
EmptyDict == <<>>

\* by_date: the dates that occur, each with its number of commits
ByDate(commits) ==
  [d \in {commits[k].timestamp.date : k \in 1..Len(commits)} |->
     Cardinality({k \in 1..Len(commits) : commits[k].timestamp.date = d})]

\* by_weekday = {i: 0 for i in range(7)}, then one increment per commit
ByWeekday(commits) ==
  [w \in 0..6 |->
     Cardinality({k \in 1..Len(commits) :
                    Weekday(commits[k].timestamp.date) = w})]

\* by_hour = {i: 0 for i in range(24)}, then one increment per commit
ByHour(commits) ==
  [h \in 0..23 |->
     Cardinality({k \in 1..Len(commits) : commits[k].timestamp.hour = h})]

\* max(daily_counts) if daily_counts else 0
MaxOf(counts) ==
  IF DOMAIN counts = {} THEN 0
  ELSE CHOOSE m \in {counts[d] : d \in DOMAIN counts} :
         \A d \in DOMAIN counts : counts[d] <= m

\* len(commits) / len(by_date) if by_date else 0, as an exact fraction
Average(total, days) ==
  IF days # 0 THEN [num |-> total, den |-> days] ELSE [num |-> 0, den |-> 1]

\* ContributionSimulator.get_stats(commits)
GetStats(commits) ==
  IF commits = <<>> THEN EmptyDict
  ELSE
    LET by_date == ByDate(commits)
        by_weekday == ByWeekday(commits)
        active == Cardinality(DOMAIN by_date) IN
    [total_commits |-> Len(commits),
     active_days |-> active,
     avg_commits_per_active_day |-> Average(Len(commits), active),
     max_commits_in_day |-> MaxOf(by_date),
     by_weekday |-> [Mon |-> by_weekday[0], Tue |-> by_weekday[1],
                     Wed |-> by_weekday[2], Thu |-> by_weekday[3],
                     Fri |-> by_weekday[4], Sat |-> by_weekday[5],
                     Sun |-> by_weekday[6]],
     by_hour |-> ByHour(commits)]

\* The keys main() of simulator.py reads from the result, and the keys
\* generate_contributions reads.
MainReads == {"total_commits", "active_days", "avg_commits_per_active_day",
              "max_commits_in_day", "by_weekday"}
GenReads == {"total_commits", "active_days", "avg_commits_per_active_day"}

\* stats[key] raises KeyError when the key is missing.
ReadRaises(result, keys) == ~(keys \subseteq DOMAIN result)

\* stats = simulator.get_stats(commits)
GetStatsCall ==
  /\ stats.pc = "call"
  /\ stats' = [stats EXCEPT !.pc = "read", !.result = GetStats(stats.commits)]
  /\ UNCHANGED <<rng, plan, sim, returned, spent, sched, gen>>

\* main(): the statistics are printed from the fields of the result.
PrintStats ==
  /\ stats.pc = "read"
  /\ stats' = IF ReadRaises(stats.result, MainReads)
                THEN [stats EXCEPT !.pc = "raised", !.raised = "KeyError"]
                ELSE [stats EXCEPT !.pc = "done"]
  /\ UNCHANGED <<rng, plan, sim, returned, spent, sched, gen>>

\* The event lists get_stats is applied to: any order, duplicates allowed.
StatsEvents ==
  {Commit(DateTime(d, h, 0, 0), "Update README") :
     d \in Dates, h \in {PROFILES.light.commit_time_start,
                         PROFILES.light.commit_time_end}}

RECURSIVE ListsUpTo(_, _)
ListsUpTo(S, n) ==
  IF n = 0 THEN {<<>>}
  ELSE LET shorter == ListsUpTo(S, n - 1) IN
       shorter \cup {Append(l, x) : l \in shorter, x \in S}

InitStats ==
  /\ rng = Entropy
  /\ plan = [i \in Insts |-> CHOOSE a \in Args : TRUE]
  /\ sim = [i \in Insts |-> NoSimulator]
  /\ returned = <<>>
  /\ spent = 0
  /\ sched = [cur |-> 1, switches |-> 0]
  /\ \E l \in ListsUpTo(StatsEvents, MaxStatsLen) :
       stats = [NoStats EXCEPT !.pc = "call", !.commits = l]
  /\ gen = NoGen

NextStats == GetStatsCall \/ PrintStats

SpecStats == InitStats /\ [][NextStats]_vars

\* ---------------------------------------------------- generate_contributions
\* simulator = ContributionSimulator(start, end, intensity, seed)
GenConstruct ==
  /\ gen.pc = "construct"
  /\ ConstructBody(1)
  /\ gen' = IF KnownProfile(plan[1].intensity)
              THEN [gen EXCEPT !.pc = "simulate"]
              ELSE [gen EXCEPT !.pc = "raised", !.raised = "ValueError"]

\* commits = simulator.simulate()
GenSimulate ==
  /\ gen.pc = "simulate"
  /\ SimulateBody(1)
  /\ gen' = [gen EXCEPT !.pc = "simulating"]

\* stats = simulator.get_stats(commits) and the three fields printed from
\* it; then the dry run returns len(commits), the live run begins the loop.
GenStats ==
  /\ gen.pc = "simulating"
  /\ returned # <<>>
  /\ LET commits == returned[1].events IN
     \E dry_run \in BOOLEAN :
       gen' = IF ReadRaises(GetStats(commits), GenReads)
                THEN [gen EXCEPT !.pc = "raised", !.raised = "KeyError",
                                 !.commits = commits]
              ELSE IF dry_run
                THEN [gen EXCEPT !.pc = "done", !.dry_run = TRUE,
                                 !.commits = commits,
                                 !.result = Len(commits)]
              ELSE [gen EXCEPT !.pc = "create", !.commits = commits, !.i = 1]
  /\ UNCHANGED <<rng, plan, sim, returned, spent, sched, stats>>

\* for i, commit in enumerate(commits, 1): create_commit(...) runs git and
\* may raise; the exception is printed and the loop continues.
GenCreateCommit ==
  /\ gen.pc = "create"
  /\ gen.i <= Len(gen.commits)
  /\ \E ok \in BOOLEAN :
       gen' = [gen EXCEPT !.handed = Append(@, gen.commits[gen.i]),
                          !.created = IF ok THEN @ + 1 ELSE @,
                          !.i = @ + 1]
  /\ UNCHANGED <<rng, plan, sim, returned, spent, sched, stats>>

\* return len(commits)
GenResult(commits, created) == Len(commits)

GenReturn ==
  /\ gen.pc = "create"
  /\ gen.i > Len(gen.commits)
  /\ gen' = [gen EXCEPT !.pc = "done",
                        !.result = GenResult(gen.commits, gen.created)]
  /\ UNCHANGED <<rng, plan, sim, returned, spent, sched, stats>>

\* generate_contributions called with any arguments.
InitGen ==
  /\ rng = Entropy
  /\ \E a \in Args : plan = [i \in Insts |-> a]
  /\ sim = [i \in Insts |-> NoSimulator]
  /\ returned = <<>>
  /\ spent = 0
  /\ sched = [cur |-> 1, switches |-> 0]
  /\ stats = NoStats
  /\ gen = [NoGen EXCEPT !.pc = "construct"]

NextGen ==
  \/ GenConstruct
  \/ GenSimulate
  \/ NextDay(1)
  \/ SimulateReturn(1)
  \/ ShouldCommitToday(1)
  \/ GetCommitCount(1)
  \/ BurstDay(1)
  \/ BiasedHourAttempt(1)
  \/ BiasedHourFallback(1)
  \/ DrawMinute(1)
  \/ DrawSecond(1)
  \/ GenerateMessage(1)
  \/ GenStats
  \/ GenCreateCommit
  \/ GenReturn

SpecGen == InitGen /\ [][NextGen]_vars

\* ------------------------------------------------------------- properties
\* The returned calls made with the same arguments as call k.
SameArgs(j, k) ==
  /\ returned[j].start = returned[k].start
  /\ returned[j].end = returned[k].end
  /\ returned[j].intensity = returned[k].intensity
  /\ returned[j].seed = returned[k].seed

\* C1 - determinism: any two simulate() calls made with identical
\* (start_date, end_date, profile, seed) return identical event sequences,
\* also when they are made on two separately constructed instances.
C1_SameArgsSameEvents ==
  \A j, k \in 1..Len(returned) :
    (SameArgs(j, k) /\ returned[k].seed # None)
      => returned[j].events = returned[k].events

\* C2 - simulate() with start_date > end_date fails with InvalidRangeError
\* and returns no result, not even an empty one; with start_date <= end_date
\* it never raises InvalidRangeError.
C2_InvertedRangeRejected ==
  \A k \in 1..Len(returned) :
    returned[k].outcome = IF returned[k].start > returned[k].end
                            THEN "InvalidRangeError" ELSE "returned"

\* A sequence of events in non-decreasing order of full timestamp.
Sorted(events) ==
  \A k \in 1..(Len(events) - 1) :
    TsLeq(events[k].timestamp, events[k + 1].timestamp)

\* C3 - for every profile, every range with start_date <= end_date and
\* every outcome of the draws, the sequence simulate() returns is sorted
\* non-decreasing by full timestamp, across days and within each day, and
\* every event's date lies in [start_date, end_date].
C3_SortedWithinRange ==
  \A k \in 1..Len(returned) :
    returned[k].start <= returned[k].end =>
      /\ Sorted(returned[k].events)
      /\ \A n \in 1..Len(returned[k].events) :
           returned[k].events[n].timestamp.date
             \in returned[k].start..returned[k].end

\* C3 happens: a returned sequence with two different timestamps on one day
\* and with events on two days.
C3_Witness ==
  \E k \in 1..Len(returned) :
    LET e == returned[k].events IN
    /\ \E m, n \in 1..Len(e) :
         /\ m < n
         /\ e[m].timestamp.date = e[n].timestamp.date
         /\ e[m].timestamp # e[n].timestamp
    /\ \E m, n \in 1..Len(e) : e[m].timestamp.date < e[n].timestamp.date

\* An hour of the profile's window [commit_time_start, commit_time_end].
InWindow(hour, profile) ==
  profile.commit_time_start <= hour /\ hour <= profile.commit_time_end

\* C4 - every event simulate() returns, and every hour _biased_hour hands
\* back on the way (an accepted peak candidate, an accepted off-peak
\* candidate, the fallback after 10 rejections), lies in the window of the
\* active profile.
C4_HourInWindow ==
  /\ \A k \in 1..Len(returned) :
       \A n \in 1..Len(returned[k].events) :
         InWindow(returned[k].events[n].timestamp.hour,
                  PROFILES[returned[k].intensity])
  /\ \A i \in Insts :
       LET f == sim[i].frame IN
       /\ f.pc \in {"minute", "second"} => InWindow(f.hour, Profile(i))
       /\ \A n \in 1..Len(f.times) : InWindow(f.times[n].hour, Profile(i))
       /\ \A n \in 1..Len(f.all_commits) :
            InWindow(f.all_commits[n].timestamp.hour, Profile(i))

\* C4 happens: the hour in hand came from the fallback, after ten rejected
\* candidates, and an earlier event of the day from an accepted candidate.
C4_Witness ==
  \E i \in Insts :
    LET f == sim[i].frame IN
    /\ f.pc = "minute"
    /\ f.attempts = MaxAttempts
    /\ f.hour # None
    /\ f.times # <<>>

\* C5 - get_stats applied to an empty list never fails and returns total 0,
\* active_days 0, average 0, max 0, seven weekday buckets and 24 hour
\* buckets all present and zero; the caller that reads the fields does not
\* fail.
C5_EmptySummary ==
  (stats.pc # "call" /\ stats.commits = <<>>) =>
    LET r == stats.result IN
    /\ stats.pc # "raised"
    /\ {"total_commits", "active_days", "avg_commits_per_active_day",
        "max_commits_in_day", "by_weekday", "by_hour"} \subseteq DOMAIN r
    /\ r.total_commits = 0
    /\ r.active_days = 0
    /\ r.avg_commits_per_active_day.num = 0
    /\ r.max_commits_in_day = 0
    /\ DOMAIN r.by_weekday = {"Mon", "Tue", "Wed", "Thu", "Fri", "Sat", "Sun"}
    /\ \A w \in DOMAIN r.by_weekday : r.by_weekday[w] = 0
    /\ DOMAIN r.by_hour = 0..23
    /\ \A h \in DOMAIN r.by_hour : r.by_hour[h] = 0

\* The sum of the values of a dict of counts.
RECURSIVE SumOver(_, _)
SumOver(counts, keys) ==
  IF keys = {} THEN 0
  ELSE LET k == CHOOSE x \in keys : TRUE IN
       counts[k] + SumOver(counts, keys \ {k})

\* C6 - for every event list (any order, duplicates allowed, the empty list
\* included) the summary satisfies
\* sum(by_weekday) == sum(by_hour) == total == len(events).
C6_SumsAgree ==
  stats.pc # "call" =>
    LET r == stats.result IN
    /\ {"total_commits", "by_weekday", "by_hour"} \subseteq DOMAIN r
    /\ r.total_commits = Len(stats.commits)
    /\ SumOver(r.by_weekday, DOMAIN r.by_weekday) = r.total_commits
    /\ SumOver(r.by_hour, DOMAIN r.by_hour) = r.total_commits

\* The number of events of a returned call that carry the date.
EventsOn(events, date) ==
  Cardinality({k \in 1..Len(events) : events[k].timestamp.date = date})

\* C7 - for every day of the range the number of returned events with that
\* date is 0 or in 1..max_commits_per_day: a day whose activation draw
\* passes yields at least one event, a day whose draw fails yields none, and
\* no day exceeds the maximum even after the burst multiplier.  A single-day
\* range simulates exactly that day.
C7_DailyVolume ==
  \A k \in 1..Len(returned) :
    LET r == returned[k]
        max_commits == PROFILES[r.intensity].max_commits_per_day IN
    /\ r.active_days \subseteq r.start..r.end
    /\ Len(r.events) = SumOver([d \in r.start..r.end |-> EventsOn(r.events, d)],
                               r.start..r.end)
    /\ \A d \in r.start..r.end :
         IF d \in r.active_days
           THEN 1 <= EventsOn(r.events, d) /\ EventsOn(r.events, d) <= max_commits
           ELSE EventsOn(r.events, d) = 0

\* C7 happens: a single-day range has returned, its day active and holding
\* as many events as the profile allows.
C7_Witness ==
  \E k \in 1..Len(returned) :
    LET r == returned[k] IN
    /\ r.start = r.end
    /\ r.active_days = {r.start}
    /\ Len(r.events) = PROFILES[r.intensity].max_commits_per_day

\* C8 - constructing a simulator with a profile name other than light,
\* medium or heavy fails with the configuration error (ValueError in the
\* source); no simulator results, no event is produced, and the generator is
\* left as before the call: the seed is not applied.
C8_UnknownProfileRejected ==
  \A i \in Insts :
    ~KnownProfile(plan[i].intensity) =>
      /\ sim[i].state # "ready"
      /\ ~Busy(i)
      /\ sim[i].state = "failed" =>
           /\ sim[i].raised = "ValueError"
           /\ rng = Entropy
           /\ returned = <<>>

\* C8 happens: a constructor given an unknown name and a seed has failed.
C8_Witness ==
  \E i \in Insts :
    /\ sim[i].state = "failed"
    /\ ~KnownProfile(plan[i].intensity)
    /\ plan[i].seed # None

\* C9 - instances share no mutable state: what a seeded instance's
\* simulate() returns is the same for every interleaving of its steps with
\* the construction and the simulate() of a second instance, namely what it
\* returns when it runs alone on the stream of its seed.
C9_IndependentOfOtherInstance ==
  \A k \in 1..Len(returned) :
    LET r == returned[k] IN
    r.seed # None =>
      r.events = SoloEvents(r.start, r.end, r.intensity, r.seed)

\* C10 - in live mode generate_contributions hands the events to
\* create_commit one at a time in the order simulate() produced them, goes
\* on after a failure, and returns the number of commits created.
C10_ReturnsCreated ==
  (gen.pc = "done" /\ ~gen.dry_run) =>
    /\ gen.handed = gen.commits
    /\ gen.commits = returned[1].events
    /\ gen.result = gen.created

\* Simulator i leaves the loop of _biased_hour by the statement after it.
FallbackStep(i) ==
  /\ sim[i].frame.pc = "fallback"
  /\ sim'[i].frame.pc = "minute"

\* C11 as the specification words it - after 10 rejected attempts the hour
\* returned is the hour drawn in the 10th attempt and no further hour is
\* drawn from the stream, so one selection consumes at most 10 hour draws.
C11_ReturnsLastCandidate ==
  [][\A i \in Insts :
       FallbackStep(i) =>
         /\ sim'[i].frame.hour = sim[i].frame.hour
         /\ rng' = rng]_vars

\* C11 as the code has it - after 10 rejected attempts (10 hour draws) one
\* more hour is drawn from the stream, in the profile's window, and that
\* draw is returned whatever the 10th candidate was: one selection consumes
\* at most 11 hour draws.
C11_FallbackDrawsAgain ==
  [][\A i \in Insts :
       FallbackStep(i) =>
         /\ sim[i].frame.attempts = MaxAttempts
         /\ sim'[i].frame.attempts = MaxAttempts
         /\ \E d \in RandintDraws(rng, Profile(i).commit_time_start,
                                  Profile(i).commit_time_end,
                                  HourSamples(Profile(i).commit_time_start,
                                              Profile(i).commit_time_end)) :
              /\ rng' = d.rng
              /\ sim'[i].frame.hour = d.val]_vars

\* C11 happens: the first hour of a day came from the draw after the loop,
\* on a seeded stream, which that draw advanced.
C11_Witness ==
  \E i \in Insts :
    LET f == sim[i].frame IN
    /\ f.pc = "minute"
    /\ f.attempts = MaxAttempts
    /\ f.times = <<>>
    /\ rng.seeded

\* The state of a seeded stream n draws later.
RECURSIVE Drawn(_, _)
Drawn(st, n) == IF n = 0 THEN st ELSE Drawn(Advance(st), n - 1)

\* The generator after one of the numbers of draws in `counts`.
Consumes(counts) ==
  /\ rng'.seeded = rng.seeded
  /\ rng.seeded => \E n \in counts : rng'.st = Drawn(rng.st, n)

\* One step of simulator i in the order of the draws: f is its frame before
\* the step and g after.
DrawOrder(i) ==
  LET f == sim[i].frame
      g == sim'[i].frame
      same_day == g.current_date = f.current_date
      next_day == /\ g.pc = "loop"
                  /\ g.current_date = f.current_date + 1 IN
  \/ g = f
  \/ f.pc = "idle" /\ g.pc = "loop" /\ g.current_date = sim[i].start_date
       /\ rng' = rng
  \/ f.pc = "loop" /\ g.pc \in {"activation", "idle"} /\ rng' = rng
       /\ (g.pc = "activation" => same_day)
  \/ f.pc = "activation" /\ Consumes({1})
       /\ \/ g.pc = "gauss" /\ same_day
          \/ next_day /\ g.all_commits = f.all_commits
  \/ f.pc = "gauss" /\ g.pc = "burst" /\ same_day /\ Consumes({1})
  \/ f.pc = "burst" /\ g.pc = "hour" /\ same_day /\ Consumes({1})
       /\ g.count >= 1 /\ g.times = <<>>
  \/ f.pc = "hour" /\ g.pc \in {"hour", "fallback", "minute"} /\ same_day
       /\ Consumes({2}) /\ g.times = f.times
  \/ f.pc = "fallback" /\ g.pc = "minute" /\ same_day /\ Consumes({1})
       /\ g.times = f.times
  \/ f.pc = "minute" /\ g.pc = "second" /\ same_day /\ Consumes({1})
       /\ g.times = f.times
  \/ f.pc = "second" /\ same_day /\ Consumes({1})
       /\ Len(g.times) = Len(f.times) + 1
       /\ \/ g.pc = "hour" /\ Len(g.times) < f.count
          \/ g.pc = "label" /\ Len(g.times) = f.count /\ g.commits = <<>>
  \/ f.pc = "label" /\ Consumes({3, 4, 5})
       /\ \/ /\ g.pc = "label" /\ same_day /\ g.times = f.times
             /\ Len(g.commits) = Len(f.commits) + 1
             /\ Len(g.commits) < Len(f.times)
          \/ /\ next_day
             /\ Len(f.commits) + 1 = Len(f.times)
             /\ Len(g.all_commits) = Len(f.all_commits) + Len(f.times)

\* C12 - the stream is consumed in a fixed order for each day, days in
\* ascending order: the activation draw; nothing more for a day that does
\* not activate; otherwise the volume draw, the burst draw, then for each
\* event its hour-selection draws, its minute draw and its second draw, and
\* only after all timestamps of the day one label generation per event; no
\* draw of one day is interleaved with a draw of another day.
C12_DrawOrder == [][\A i \in Insts : DrawOrder(i)]_vars

\* C12 happens: on the second day of a range, all timestamps of a day of
\* several events are drawn and its labels are being generated.
C12_Witness ==
  \E i \in Insts :
    LET f == sim[i].frame IN
    /\ f.pc = "label"
    /\ f.current_date > sim[i].start_date
    /\ Len(f.times) >= 2
    /\ Len(f.commits) = 1

\* The bounds of the loops of a running simulate(): the date stays between
\* start_date and the day after end_date, an hour selection has made at
\* most MaxAttempts attempts, and a day holds at most max_commits_per_day
\* timestamps and as many labels.
LoopsBounded(i) ==
  LET f == sim[i].frame
      max_commits == Profile(i).max_commits_per_day IN
  Busy(i) =>
    /\ sim[i].start_date <= f.current_date
    /\ f.current_date <= Max(sim[i].end_date + 1, sim[i].start_date)
    /\ 0 <= f.attempts /\ f.attempts <= MaxAttempts
    /\ (f.pc = "hour" => f.attempts < MaxAttempts)
    /\ (f.pc \in {"hour", "fallback", "minute", "second"} =>
          /\ 1 <= f.count /\ f.count <= max_commits
          /\ Len(f.times) < f.count)
    /\ (f.pc = "label" =>
          /\ Len(f.times) <= max_commits
          /\ Len(f.commits) < Len(f.times))

\* The day loop advances exactly one day per iteration: the date moves, by
\* one day, when and only when an iteration ends; simulate() returns only
\* from the loop test, with the date past end_date.
DayAdvances(i) ==
  LET f == sim[i].frame
      g == sim'[i].frame IN
  /\ (Busy(i) /\ g.pc # "idle") =>
       g.current_date = IF g.pc = "loop" /\ f.pc # "loop"
                          THEN f.current_date + 1 ELSE f.current_date
  /\ (Busy(i) /\ g.pc = "idle") =>
       /\ f.pc = "loop"
       /\ f.current_date = Max(sim[i].end_date + 1, sim[i].start_date)

\* C13 - simulate() terminates for every range (start_date > end_date and
\* start_date == end_date included), every profile and every outcome of
\* the draws: the day loop advances exactly one day per iteration and runs
\* end_date - start_date + 1 times for a valid range, each day produces at
\* most max_commits_per_day events, and each hour selection ends after at
\* most 10 rejected attempts.
C13_Terminates ==
  /\ [](\A i \in Insts : LoopsBounded(i))
  /\ [][\A i \in Insts : DayAdvances(i)]_vars
  /\ \A i \in Insts : Busy(i) ~> ~Busy(i)

\* C13 happens: a call over a two-day range has returned after two
\* iterations, both days active.
C13_Witness ==
  \E k \in 1..Len(returned) :
    /\ returned[k].start < returned[k].end
    /\ returned[k].active_days = returned[k].start..returned[k].end
    /\ ~Busy(returned[k].inst)

====
